---- MODULE Spec2Model ----
(***************************************************************************)
(* Model of dashboard_app.py, the Streamlit orders dashboard: header       *)
(* normalisation, Order Date parsing, aggregation of Secondary.xlsx, the   *)
(* left merge with Summary.xlsx, column unification and the retail time.   *)
(*                                                                         *)
(* Text is a sequence of one-character strings, so that strip, the regex   *)
(* replace, title(), strptime and the f-string are computed, not assumed.  *)
(* A cell is a record [k, v]: k is the kind of Python value, v the value.  *)
(***************************************************************************)
EXTENDS Integers, Sequences, FiniteSets, TLC

VARIABLES
  pc,          \* position in the script / which helper is being exercised
  columns,     \* frame.columns of the frame handed to normalize_columns
  normalized,  \* the Index after each successive normalize_columns call
  series,      \* the column handed to robust_parse_date_col
  generic,     \* what pd.to_datetime(s_str, errors="coerce") returned
  dates,       \* the Series robust_parse_date_col returned
  df_summary_raw,    \* what load_data returned for Summary.xlsx
  df_secondary_raw,  \* what load_data returned for Secondary.xlsx
  df_summary,
  df_secondary,
  join_keys,
  df_secondary_agg,
  merge_keys_debug,
  tmp,               \* the debug merge of the diagnostics block
  df_merged,         \* df as line 235 left it
  df,
  error              \* where the run stopped and the key the exception names

nameVars == <<columns, normalized>>

dateVars == <<series, generic, dates>>

rawVars == <<df_summary_raw, df_secondary_raw>>

frameVars == <<df_summary, df_secondary, join_keys, df_secondary_agg>>

diagVars == <<merge_keys_debug, tmp>>

resultVars == <<df_merged, df>>

vars == <<pc, nameVars, dateVars, rawVars, frameVars, diagVars, resultVars, error>>

(***************************************************************************)
(* Bounds of the model                                                     *)
(***************************************************************************)
MaxNameLen == 3
MaxSeriesLen == 2
MaxSummaryRows == 2
MaxSecondaryRows == 3
MaxPrimaryRows == 4
MaxDetailRows == 4

(***************************************************************************)
(* Characters                                                              *)
(***************************************************************************)
LowerCase ==
  <<"a","b","c","d","e","f","g","h","i","j","k","l","m",
    "n","o","p","q","r","s","t","u","v","w","x","y","z">>

UpperCase ==
  <<"A","B","C","D","E","F","G","H","I","J","K","L","M",
    "N","O","P","Q","R","S","T","U","V","W","X","Y","Z">>

Digits == <<"0","1","2","3","4","5","6","7","8","9">>

Range(s) == {s[i] : i \in DOMAIN s}

IndexOf(c, s) == CHOOSE i \in DOMAIN s : s[i] = c

IsLower(c) == c \in Range(LowerCase)

IsUpper(c) == c \in Range(UpperCase)

IsCased(c) == IsLower(c) \/ IsUpper(c)

IsDigit(c) == c \in Range(Digits)

ToUpperChar(c) == IF IsLower(c) THEN UpperCase[IndexOf(c, LowerCase)] ELSE c

ToLowerChar(c) == IF IsUpper(c) THEN LowerCase[IndexOf(c, UpperCase)] ELSE c

\* what str.strip() removes and what \s matches
Whitespace == {" ", "\t", "\n"}

(***************************************************************************)
(* str methods used by the script                                          *)
(***************************************************************************)
RECURSIVE LStrip(_)
LStrip(s) ==
  IF s # <<>> /\ Head(s) \in Whitespace THEN LStrip(Tail(s)) ELSE s

RECURSIVE RStrip(_)
RStrip(s) ==
  IF s # <<>> /\ s[Len(s)] \in Whitespace
  THEN RStrip(SubSeq(s, 1, Len(s) - 1))
  ELSE s

\* str.strip()
Strip(s) == RStrip(LStrip(s))

\* str.upper()
Upper(s) == [i \in DOMAIN s |-> ToUpperChar(s[i])]

\* str.replace(r"[_\s]+", " ", regex=True): every maximal run becomes one space
RECURSIVE CollapseRuns(_, _)
CollapseRuns(s, inRun) ==
  IF s = <<>> THEN <<>>
  ELSE IF Head(s) = "_" \/ Head(s) \in Whitespace
       THEN (IF inRun THEN <<>> ELSE <<" ">>) \o CollapseRuns(Tail(s), TRUE)
       ELSE <<Head(s)>> \o CollapseRuns(Tail(s), FALSE)

\* str.title(): a cased character is upper-cased after an uncased one,
\* lower-cased after a cased one
RECURSIVE TitleFrom(_, _)
TitleFrom(s, prevCased) ==
  IF s = <<>> THEN <<>>
  ELSE <<IF prevCased THEN ToLowerChar(Head(s)) ELSE ToUpperChar(Head(s))>>
       \o TitleFrom(Tail(s), IsCased(Head(s)))

Title(s) == TitleFrom(s, FALSE)

\* the chain applied to frame.columns in normalize_columns, for one header
NormalizeName(s) == Title(CollapseRuns(Strip(s), FALSE))

\* normalize_columns on the Index of a frame
normalize_columns(cols) == [i \in DOMAIN cols |-> NormalizeName(cols[i])]


(***************************************************************************)
(* Cells                                                                   *)
(***************************************************************************)
\* NaN / None / NaT: what isna() reports as missing
NA == [k |-> "na", v |-> 0]

\* an int or float cell
Num(n) == [k |-> "num", v |-> n]

\* a str cell
Str(s) == [k |-> "str", v |-> s]

\* a pandas Timestamp: day number (days since 1970-01-01) and second of day
Ts(day, sec) == [k |-> "ts", v |-> <<day, sec>>]

\* a datetime.date
Date(day) == [k |-> "date", v |-> day]

IsNA(c) == c.k = "na"

\* Series.fillna(other) / Series.combine_first(other), aligned on the index
FillNA(a, b) ==
  [i \in DOMAIN a |-> IF IsNA(a[i]) /\ i \in DOMAIN b THEN b[i] ELSE a[i]]

(***************************************************************************)
(* Calendar                                                                *)
(***************************************************************************)
IsLeap(y) == (y % 4 = 0 /\ y % 100 # 0) \/ y % 400 = 0

DaysInMonth(y, m) ==
  IF m = 2 THEN (IF IsLeap(y) THEN 29 ELSE 28)
  ELSE IF m \in {4, 6, 9, 11} THEN 30 ELSE 31

\* days from 1970-01-01 to the proleptic Gregorian date y-m-d
DaysFromCivil(y, m, d) ==
  LET yy  == IF m <= 2 THEN y - 1 ELSE y
      era == yy \div 400
      yoe == yy - era * 400
      mp  == IF m > 2 THEN m - 3 ELSE m + 9
      doy == (153 * mp + 2) \div 5 + d - 1
      doe == yoe * 365 + yoe \div 4 - yoe \div 100 + doy
  IN era * 146097 + doe - 719468

\* origin="1899-12-30"
ExcelOrigin == DaysFromCivil(1899, 12, 30)

(***************************************************************************)
(* Text to numbers and back                                                *)
(***************************************************************************)
AllDigits(f) == f # <<>> /\ \A i \in DOMAIN f : IsDigit(f[i])

RECURSIVE DigitsValue(_)
DigitsValue(f) ==
  IF f = <<>> THEN 0
  ELSE DigitsValue(SubSeq(f, 1, Len(f) - 1)) * 10 + (IndexOf(f[Len(f)], Digits) - 1)

\* str(n) for an int
RECURSIVE IntToStr(_)
IntToStr(n) ==
  IF n < 0 THEN <<"-">> \o IntToStr(0 - n)
  ELSE IF n < 10 THEN <<Digits[n + 1]>>
  ELSE IntToStr(n \div 10) \o <<Digits[(n % 10) + 1]>>

\* Series.astype(str), per cell
AsStr(c) ==
  CASE c.k = "str" -> c.v
    [] c.k = "num" -> IntToStr(c.v)
    [] OTHER       -> <<"n", "a", "n">>

\* pd.to_numeric(series, errors="coerce"), per cell
ToNumeric(c) ==
  CASE c.k = "num" -> c
    [] c.k = "str" /\ AllDigits(Strip(c.v)) -> Num(DigitsValue(Strip(c.v)))
    [] OTHER -> NA

\* str.split(sep)
RECURSIVE SplitOn(_, _)
SplitOn(s, sep) ==
  IF \A i \in DOMAIN s : s[i] # sep THEN <<s>>
  ELSE LET i == CHOOSE j \in DOMAIN s :
                  s[j] = sep /\ \A h \in 1..(j - 1) : s[h] # sep
       IN <<SubSeq(s, 1, i - 1)>> \o SplitOn(SubSeq(s, i + 1, Len(s)), sep)

(***************************************************************************)
(* strptime                                                                *)
(***************************************************************************)
MonthAbbr ==
  << <<"j","a","n">>, <<"f","e","b">>, <<"m","a","r">>, <<"a","p","r">>,
     <<"m","a","y">>, <<"j","u","n">>, <<"j","u","l">>, <<"a","u","g">>,
     <<"s","e","p">>, <<"o","c","t">>, <<"n","o","v">>, <<"d","e","c">> >>

Lower(s) == [i \in DOMAIN s |-> ToLowerChar(s[i])]

\* the value of one field under one directive, -1 when it does not match
FieldValue(f, directive) ==
  CASE directive = "Y" ->
         IF Len(f) = 4 /\ AllDigits(f) THEN DigitsValue(f) ELSE -1
    [] directive = "m" ->
         IF Len(f) \in {1, 2} /\ AllDigits(f) /\ DigitsValue(f) \in 1..12
         THEN DigitsValue(f) ELSE -1
    [] directive = "d" ->
         IF Len(f) \in {1, 2} /\ AllDigits(f) /\ DigitsValue(f) \in 1..31
         THEN DigitsValue(f) ELSE -1
    [] directive = "b" ->
         IF Lower(f) \in Range(MonthAbbr) THEN IndexOf(Lower(f), MonthAbbr) ELSE -1

\* a format "%a<sep>%b<sep>%c": the separator and the three directives
Fmt(sep, d1, d2, d3) == [sep |-> sep, dirs |-> <<d1, d2, d3>>]

\* the date a civil triple denotes, NA when the day does not exist
CivilTs(y, m, d) ==
  IF y >= 0 /\ m \in 1..12 /\ d >= 1 /\ d <= DaysInMonth(y, m)
  THEN Ts(DaysFromCivil(y, m, d), 0)
  ELSE NA

\* pd.to_datetime(text, format=fmt, errors="coerce"), per cell
Strptime(text, fmt) ==
  LET fields == SplitOn(text, fmt.sep)
  IN IF Len(fields) # 3 THEN NA
     ELSE LET val(x) == LET i == CHOOSE j \in 1..3 :
                                   fmt.dirs[j] = x \/ (x = "m" /\ fmt.dirs[j] = "b")
                        IN FieldValue(fields[i], fmt.dirs[i])
          IN IF val("Y") < 0 \/ val("m") < 0 \/ val("d") < 0 THEN NA
             ELSE CivilTs(val("Y"), val("m"), val("d"))

\* line 33: the first format tried
FirstFormat == Fmt("-", "Y", "m", "d")

\* the loop with month-first slashes tried before day-first slashes
LoopFormatsMonthFirst ==
  << Fmt("-", "d", "m", "Y"), Fmt("/", "m", "d", "Y"), Fmt("/", "Y", "m", "d"),
     Fmt("-", "d", "b", "Y"), Fmt(" ", "d", "b", "Y"), Fmt("/", "d", "m", "Y"),
     Fmt(".", "d", "m", "Y") >>

\* line 34: the formats of the for loop, in its order
LoopFormats ==
  << Fmt("-", "d", "m", "Y"), Fmt("/", "d", "m", "Y"), Fmt("/", "Y", "m", "d"),
     Fmt("-", "d", "b", "Y"), Fmt(" ", "d", "b", "Y"), Fmt("/", "m", "d", "Y"),
     Fmt(".", "d", "m", "Y") >>

(***************************************************************************)
(* The generic parser, pd.to_datetime(text, errors="coerce")               *)
(***************************************************************************)
\* the seconds of a trailing " HH:MM", -1 when the text has none
TrailingTime(text) ==
  LET n == Len(text)
  IN IF /\ n > 6
        /\ text[n - 5] = " "
        /\ text[n - 2] = ":"
        /\ AllDigits(SubSeq(text, n - 4, n - 3))
        /\ AllDigits(SubSeq(text, n - 1, n))
        /\ DigitsValue(SubSeq(text, n - 4, n - 3)) < 24
        /\ DigitsValue(SubSeq(text, n - 1, n)) < 60
     THEN (DigitsValue(SubSeq(text, n - 4, n - 3)) * 60
           + DigitsValue(SubSeq(text, n - 1, n))) * 60
     ELSE -1

\* three fields read the way dateutil reads them with dayfirst=False: a
\* leading four-digit field is the year; otherwise the first number is the
\* month unless only the second can be one; a month name fixes the month
DateutilTriple(f) ==
  LET y1 == FieldValue(f[1], "Y")
      y3 == FieldValue(f[3], "Y")
      n(i) == IF Len(f[i]) \in {1, 2} /\ AllDigits(f[i]) THEN DigitsValue(f[i]) ELSE -1
  IN CASE y1 >= 0 /\ n(2) >= 0 /\ n(3) >= 0 -> CivilTs(y1, n(2), n(3))
       [] y3 >= 0 /\ n(1) >= 0 /\ FieldValue(f[2], "b") >= 0 ->
            CivilTs(y3, FieldValue(f[2], "b"), n(1))
       [] y3 >= 0 /\ n(1) \in 1..12 /\ n(2) >= 0 -> CivilTs(y3, n(1), n(2))
       [] y3 >= 0 /\ n(1) > 12 /\ n(2) \in 1..12 -> CivilTs(y3, n(2), n(1))
       [] OTHER -> NA

\* one element parsed on its own
DateutilParse(text) ==
  LET secs     == TrailingTime(text)
      datePart == IF secs >= 0 THEN SubSeq(text, 1, Len(text) - 6) ELSE text
      seps     == {sep \in {"-", "/", ".", " "} : Len(SplitOn(datePart, sep)) = 3}
  IN IF seps = {} THEN NA
     ELSE LET day == DateutilTriple(SplitOn(datePart, CHOOSE sep \in seps : TRUE))
          IN IF IsNA(day) THEN NA
             ELSE Ts(day.v[1], IF secs >= 0 THEN secs ELSE 0)

\* The results pd.to_datetime(s_str, errors="coerce") can give for a column.
\* pandas before 2.0 parses each element on its own; pandas 2 infers one
\* format from the first element that is not null and parses the column with
\* it, so that a later element the format does not fit comes back NaT.
to_datetime_generic(s_str) ==
  LET nonNull == {i \in DOMAIN s_str : s_str[i] \notin {<<>>, <<"n", "a", "n">>}}
      first   == IF nonNull = {} THEN 0
                 ELSE CHOOSE i \in nonNull : \A j \in nonNull : i <= j
  IN {g \in [DOMAIN s_str -> {NA} \cup {DateutilParse(s_str[i]) : i \in DOMAIN s_str}] :
        \A i \in DOMAIN s_str :
          \/ g[i] = DateutilParse(s_str[i])
          \/ i # first /\ g[i] = NA}

(***************************************************************************)
(* robust_parse_date_col                                                   *)
(***************************************************************************)
\* parsed.fillna(pd.to_datetime(s_str, format=fmt, errors="coerce")) for
\* each fmt of the loop, in order
RECURSIVE FillFormats(_, _, _)
FillFormats(parsed, s_str, fmts) ==
  IF fmts = <<>> THEN parsed
  ELSE FillFormats(FillNA(parsed, [i \in DOMAIN s_str |-> Strptime(s_str[i], Head(fmts))]),
                   s_str, Tail(fmts))

\* .dt.date, per cell
DtDate(c) == IF IsNA(c) THEN NA ELSE Date(c.v[1])

\* robust_parse_date_col(series); gen is what the generic parser of line 51
\* returned for s_str
robust_parse_date_col(ser, gen) ==
  LET s_str     == [i \in DOMAIN ser |-> Strip(AsStr(ser[i]))]
      first     == [i \in DOMAIN ser |-> Strptime(s_str[i], FirstFormat)]
      explicit  == FillFormats(first, s_str, LoopFormats)
      s_num     == [i \in DOMAIN ser |-> ToNumeric(ser[i])]
      mask      == {i \in DOMAIN ser : ~IsNA(s_num[i])}
      converted == [i \in mask |-> Ts(ExcelOrigin + s_num[i].v, 0)]
      serial    == IF mask # {} THEN FillNA(explicit, converted) ELSE explicit
      parsed    == FillNA(serial, gen)
  IN [i \in DOMAIN ser |-> DtDate(parsed[i])]

(***************************************************************************)
(* Column names the script uses                                            *)
(***************************************************************************)
\* "User"
User == <<"U","s","e","r">>

\* "Order Date"
OrderDate == <<"O","r","d","e","r"," ","D","a","t","e">>

\* "Date"
DateCol == <<"D","a","t","e">>

\* "Order Date_Parsed"
OrderDateParsed ==
  <<"O","r","d","e","r"," ","D","a",
    "t","e","_","P","a","r","s","e","d">>

\* "Order Date_Raw"
OrderDateRaw == <<"O","r","d","e","r"," ","D","a","t","e","_","R","a","w">>

\* "__user__"
DiagUser == <<"_","_","u","s","e","r","_","_">>

\* "__date__"
DiagDate == <<"_","_","d","a","t","e","_","_">>

\* "_merge"
MergeIndicator == <<"_","m","e","r","g","e">>

\* "_Sum"
SumSuffix == <<"_","S","u","m">>

\* "_Sec"
SecSuffix == <<"_","S","e","c">>

\* "_x"
XSuffix == <<"_","x">>

\* "_y"
YSuffix == <<"_","y">>

\* "Region"
Region == <<"R","e","g","i","o","n">>

\* "Territory"
Territory == <<"T","e","r","r","i","t","o","r","y">>

\* "Reporting Manager"
ReportingManager ==
  <<"R","e","p","o","r","t","i","n",
    "g"," ","M","a","n","a","g","e","r">>

\* "Distributor"
Distributor == <<"D","i","s","t","r","i","b","u","t","o","r">>

\* "L4Position User"
L4PositionUser ==
  <<"L","4","P","o","s","i","t",
    "i","o","n"," ","U","s","e","r">>

\* "L3Position User"
L3PositionUser ==
  <<"L","3","P","o","s","i","t",
    "i","o","n"," ","U","s","e","r">>

\* "L2Position User"
L2PositionUser ==
  <<"L","2","P","o","s","i","t",
    "i","o","n"," ","U","s","e","r">>

\* "Primary Category"
PrimaryCategory ==
  <<"P","r","i","m","a","r","y"," ",
    "C","a","t","e","g","o","r","y">>

\* "Tc"
Tc == <<"T","c">>

\* "Pc"
Pc == <<"P","c">>

\* "Ovc"
Ovc == <<"O","v","c">>

\* "First Call"
FirstCall == <<"F","i","r","s","t"," ","C","a","l","l">>

\* "Last Call"
LastCall == <<"L","a","s","t"," ","C","a","l","l">>

\* "Total Retail Time(Hh:Mm)"
TotalRetailTime ==
  <<"T","o","t","a","l"," ","R","e","t","a","i","l",
    " ","T","i","m","e","(","H","h",":","M","m",")">>

\* "Ghee"
Ghee == <<"G","h","e","e">>

\* "Dw Primary Packs"
DwPrimaryPacks ==
  <<"D","w"," ","P","r","i","m","a",
    "r","y"," ","P","a","c","k","s">>

\* "Dw Consu"
DwConsu == <<"D","w"," ","C","o","n","s","u">>

\* "Dw Bulk"
DwBulk == <<"D","w"," ","B","u","l","k">>

\* "36 No"
No36 == <<"3","6"," ","N","o">>

\* "Smp"
Smp == <<"S","m","p">>

\* "Gjm"
Gjm == <<"G","j","m">>

\* "Cream"
Cream == <<"C","r","e","a","m">>

\* "Uht Milk"
UhtMilk == <<"U","h","t"," ","M","i","l","k">>

\* "Flavored Milk"
FlavoredMilk == <<"F","l","a","v","o","r","e","d"," ","M","i","l","k">>

\* "Call"
CallWord == <<"C","a","l","l">>

\* "Time"
TimeWord == <<"T","i","m","e">>

(***************************************************************************)
(* Frames.  A DataFrame is its set of column names, the dtype of each      *)
(* column and its rows, each row a function from column name to cell.      *)
(***************************************************************************)
EmptyFrame == [cols |-> {}, dtype |-> <<>>, rows |-> <<>>]

\* df[c]
Column(frame, c) == [i \in DOMAIN frame.rows |-> frame.rows[i][c]]

\* df[c] = vals, the column getting dtype dt
WithColumn(frame, c, dt, vals) ==
  LET cs == frame.cols \cup {c}
  IN [cols  |-> cs,
      dtype |-> [x \in cs |-> IF x = c THEN dt ELSE frame.dtype[x]],
      rows  |-> [i \in DOMAIN frame.rows |->
                   [x \in cs |-> IF x = c THEN vals[i] ELSE frame.rows[i][x]]]]

\* frame.drop(columns=drop, errors="ignore")
DropColumns(frame, drop) ==
  LET cs == frame.cols \ drop
  IN [cols  |-> cs,
      dtype |-> [x \in cs |-> frame.dtype[x]],
      rows  |-> [i \in DOMAIN frame.rows |-> [x \in cs |-> frame.rows[i][x]]]]

\* the frame with every column c renamed to new[c]
RenameColumns(frame, new) ==
  LET cs == {new[c] : c \in frame.cols}
      old(x) == CHOOSE c \in frame.cols : new[c] = x
  IN [cols  |-> cs,
      dtype |-> [x \in cs |-> frame.dtype[old(x)]],
      rows  |-> [i \in DOMAIN frame.rows |-> [x \in cs |-> frame.rows[i][old(x)]]]]

\* normalize_columns on a frame: the same chain applied to each header
NormalizeFrame(frame) ==
  RenameColumns(frame, [c \in frame.cols |-> NormalizeName(c)])

\* lines 104-108: "Date" becomes "Order Date" unless that column exists
RenameDateColumn(frame) ==
  IF DateCol \in frame.cols /\ OrderDate \notin frame.cols
  THEN RenameColumns(frame, [c \in frame.cols |-> IF c = DateCol THEN OrderDate ELSE c])
  ELSE frame

\* lines 124-127 and 129-132: the parsed dates replace Order Date, the text
\* of the raw cells is kept in Order Date_Raw
ParseOrderDate(frame, gen) ==
  IF OrderDate \notin frame.cols THEN frame
  ELSE LET parsed  == robust_parse_date_col(Column(frame, OrderDate), gen)
           raw     == [i \in DOMAIN frame.rows |-> Str(AsStr(frame.rows[i][OrderDate]))]
           withP   == WithColumn(frame, OrderDateParsed, "object", parsed)
           withR   == WithColumn(withP, OrderDateRaw, "object", raw)
       IN WithColumn(withR, OrderDate, "object", Column(withR, OrderDateParsed))

\* lines 135-138: .astype(str).str.strip().str.upper()
NormalizeUser(frame) ==
  IF User \notin frame.cols THEN frame
  ELSE WithColumn(frame, User, "object",
                  [i \in DOMAIN frame.rows |-> Str(Upper(Strip(AsStr(frame.rows[i][User]))))])

(***************************************************************************)
(* aggregate_secondary                                                     *)
(***************************************************************************)
\* a lookup that blames the first key whenever any key has no column
MissingKeyFirstNamed(frame, keys) ==
  IF \A j \in DOMAIN keys : keys[j] \in frame.cols THEN <<>> ELSE keys[1]

\* the first of the keys the frame has no column for, <<>> when it has all
MissingKey(frame, keys) ==
  LET missing == {j \in DOMAIN keys : keys[j] \notin frame.cols}
  IN IF missing = {} THEN <<>>
     ELSE keys[CHOOSE j \in missing : \A h \in missing : j <= h]

\* the values of the key columns in one row
KeyTuple(row, keys) == [j \in DOMAIN keys |-> row[keys[j]]]

\* groupby with its default dropna=True: rows with a missing key are left out
RECURSIVE GroupKeysDropNA(_, _, _)
GroupKeysDropNA(rows, keys, seen) ==
  IF rows = <<>> THEN seen
  ELSE LET kt == [j \in DOMAIN keys |-> Head(rows)[keys[j]]]
       IN GroupKeysDropNA(Tail(rows), keys,
                          IF (\E j \in DOMAIN kt : kt[j].k = "na")
                             \/ (\E h \in DOMAIN seen : seen[h] = kt)
                          THEN seen ELSE Append(seen, kt))

\* the distinct key tuples of the rows.  groupby sorts its groups by key;
\* here they stand in the order of their first row, which no later step
\* of the script depends on.
RECURSIVE GroupKeys(_, _, _)
GroupKeys(rows, keys, seen) ==
  IF rows = <<>> THEN seen
  ELSE LET kt == KeyTuple(Head(rows), keys)
       IN GroupKeys(Tail(rows), keys,
                    IF kt \in Range(seen) THEN seen ELSE Append(seen, kt))

\* "sum": the total of the cells that are not missing, 0 when there is none
RECURSIVE SumCells(_)
SumCells(cells) ==
  IF cells = <<>> THEN 0
  ELSE (IF IsNA(Head(cells)) THEN 0 ELSE Head(cells).v) + SumCells(Tail(cells))

\* "first": the first cell that is not missing
RECURSIVE FirstCell(_)
FirstCell(cells) ==
  IF cells = <<>> THEN NA
  ELSE IF IsNA(Head(cells)) THEN FirstCell(Tail(cells)) ELSE Head(cells)

\* line 59: frame.select_dtypes(include=["number"])
NumberColumns(frame) == {c \in frame.cols : frame.dtype[c] = "number"}

\* line 60: the object and category columns that are not join keys
ObjectColumns(frame, keys) ==
  {c \in frame.cols : frame.dtype[c] \in {"object", "category"} /\ c \notin Range(keys)}

\* Secondary handed to the merge as it is, without the groupby
SecondaryUnaggregated(frame, keys) == frame

\* aggregate_secondary(df_secondary, join_keys), for keys the frame has
aggregate_secondary(frame, keys) ==
  LET nums     == NumberColumns(frame)
      objs     == ObjectColumns(frame, keys)
      agg_dict == [c \in nums \cup objs |-> IF c \in objs THEN "first" ELSE "sum"]
      groups   == GroupKeys(frame.rows, keys, <<>>)
      cs       == Range(keys) \cup DOMAIN agg_dict
      members(g) == SelectSeq(frame.rows, LAMBDA r : KeyTuple(r, keys) = groups[g])
      cells(g, c) == [i \in DOMAIN members(g) |-> members(g)[i][c]]
  IN [cols  |-> cs,
      dtype |-> [c \in cs |-> IF c \in Range(keys) THEN frame.dtype[c]
                              ELSE IF agg_dict[c] = "sum" THEN "number"
                              ELSE "object"],
      rows  |-> [g \in DOMAIN groups |->
                   [c \in cs |->
                      IF c \in Range(keys) THEN members(g)[1][c]
                      ELSE IF agg_dict[c] = "sum" THEN Num(SumCells(cells(g, c)))
                      ELSE FirstCell(cells(g, c))]]]

(***************************************************************************)
(* pd.merge(left, right, on=keys, how="left", suffixes=..., indicator=...)  *)
(***************************************************************************)
\* the rows one left row gives: one per right row with equal keys (missing
\* keys match missing keys), or one with the right columns missing
LeftJoinRow(lr, right, keys, cs, fromLeft, fromRight, indicator) ==
  LET matches == SelectSeq(right.rows,
                           LAMBDA rr : \A j \in DOMAIN keys : rr[keys[j]] = lr[keys[j]])
      joined(rr, found) ==
        [c \in cs |->
           IF indicator /\ c = MergeIndicator
           THEN [k |-> "cat", v |-> IF found THEN "both" ELSE "left_only"]
           ELSE IF fromLeft[c] # <<>> THEN lr[fromLeft[c]]
           ELSE IF found THEN rr[fromRight[c]] ELSE NA]
  IN IF matches = <<>> THEN <<joined(lr, FALSE)>>
     ELSE [j \in DOMAIN matches |-> joined(matches[j], TRUE)]

RECURSIVE LeftJoinRows(_, _, _, _, _, _, _)
LeftJoinRows(lrows, right, keys, cs, fromLeft, fromRight, indicator) ==
  IF lrows = <<>> THEN <<>>
  ELSE LeftJoinRow(Head(lrows), right, keys, cs, fromLeft, fromRight, indicator)
       \o LeftJoinRows(Tail(lrows), right, keys, cs, fromLeft, fromRight, indicator)

\* the merged frame, for keys both frames have; a column of both frames
\* that is not a key gets the suffix of its side
Merge(left, right, keys, lsuffix, rsuffix, indicator) ==
  LET overlap  == (left.cols \cap right.cols) \ Range(keys)
      lname(c) == IF c \in overlap THEN c \o lsuffix ELSE c
      rname(c) == IF c \in overlap THEN c \o rsuffix ELSE c
      lcols    == {lname(c) : c \in left.cols}
      rcols    == {rname(c) : c \in right.cols \ Range(keys)}
      cs       == lcols \cup rcols \cup (IF indicator THEN {MergeIndicator} ELSE {})
      fromLeft ==
        [x \in cs |-> IF x \in lcols THEN CHOOSE c \in left.cols : lname(c) = x
                      ELSE <<>>]
      fromRight ==
        [x \in cs |-> IF x \in rcols
                      THEN CHOOSE c \in right.cols \ Range(keys) : rname(c) = x
                      ELSE <<>>]
  IN [cols  |-> cs,
      dtype |-> [x \in cs |->
                   IF indicator /\ x = MergeIndicator THEN "category"
                   ELSE IF fromLeft[x] # <<>> THEN left.dtype[fromLeft[x]]
                   ELSE right.dtype[fromRight[x]]],
      rows  |-> LeftJoinRows(left.rows, right, keys, cs, fromLeft, fromRight, indicator)]

(***************************************************************************)
(* unify_columns_and_drop                                                  *)
(***************************************************************************)
unify_columns_and_drop(df_local, base) ==
  LET sum_col == base \o SumSuffix
      sec_col == base \o SecSuffix
  IN IF sum_col \in df_local.cols /\ sec_col \in df_local.cols
     THEN DropColumns(
            WithColumn(df_local, base, df_local.dtype[sum_col],
                       FillNA(Column(df_local, sum_col), Column(df_local, sec_col))),
            {sum_col, sec_col})
     ELSE IF sum_col \in df_local.cols
     THEN DropColumns(
            WithColumn(df_local, base, df_local.dtype[sum_col], Column(df_local, sum_col)),
            {sum_col})
     ELSE IF sec_col \in df_local.cols
     THEN DropColumns(
            WithColumn(df_local, base, df_local.dtype[sec_col], Column(df_local, sec_col)),
            {sec_col})
     ELSE df_local

\* lines 253-256: the bases the script unifies
UnifyBases ==
  <<Region, Territory, ReportingManager, Distributor,
    L4PositionUser, L3PositionUser, L2PositionUser, PrimaryCategory>>

\* lines 253-257: the loop over the bases
RECURSIVE UnifyAll(_, _)
UnifyAll(frame, bases) ==
  IF bases = <<>> THEN frame
  ELSE UnifyAll(unify_columns_and_drop(frame, Head(bases)), Tail(bases))

(***************************************************************************)
(* Extra columns and the retail time                                       *)
(***************************************************************************)
\* lines 260-263
extra_cols ==
  <<Tc, Pc, Ovc, FirstCall, LastCall, TotalRetailTime,
    Ghee, DwPrimaryPacks, DwConsu, DwBulk, No36, Smp, Gjm, Cream, UhtMilk, FlavoredMilk>>

\* word in text
Contains(text, word) ==
  \E i \in 1..(Len(text) - Len(word) + 1) : SubSeq(text, i, i + Len(word) - 1) = word

\* lines 264-266: a missing extra column is created, 0 unless its name has
\* "Call" or "Time" in it, then NaT
RECURSIVE EnsureExtraColumns(_, _)
EnsureExtraColumns(frame, cs) ==
  IF cs = <<>> THEN frame
  ELSE LET c == Head(cs)
           isCount == ~Contains(c, CallWord) /\ ~Contains(c, TimeWord)
       IN EnsureExtraColumns(
            IF c \in frame.cols THEN frame
            ELSE WithColumn(frame, c, IF isCount THEN "number" ELSE "datetime",
                            [i \in DOMAIN frame.rows |-> IF isCount THEN Num(0) ELSE NA]),
            Tail(cs))

\* pd.to_datetime(cell, format="%H:%M", errors="coerce"): a time on 1900-01-01
StrptimeHM(c) ==
  IF c.k # "str" THEN NA
  ELSE LET f == SplitOn(c.v, ":")
       IN IF /\ Len(f) = 2
             /\ Len(f[1]) \in {1, 2} /\ AllDigits(f[1]) /\ DigitsValue(f[1]) < 24
             /\ Len(f[2]) \in {1, 2} /\ AllDigits(f[2]) /\ DigitsValue(f[2]) < 60
          THEN Ts(DaysFromCivil(1900, 1, 1),
                  (DigitsValue(f[1]) * 60 + DigitsValue(f[2])) * 60)
          ELSE NA

\* parse_time_series(series); gen is what the generic parser returns for
\* the column, used when the %H:%M format parsed no cell
parse_time_series(ser, gen) ==
  LET parsed == [i \in DOMAIN ser |-> StrptimeHM(ser[i])]
  IN IF \A i \in DOMAIN ser : IsNA(parsed[i]) THEN gen ELSE parsed

\* the text pd.to_datetime(series, errors="coerce") is given for a cell
TimeText(c) == IF c.k = "str" THEN c.v ELSE <<"n", "a", "n">>

\* f"{n:02d}"
Pad2(n) == IF 0 <= n /\ n < 10 THEN <<"0">> \o IntToStr(n) ELSE IntToStr(n)

\* line 277: f"{x // 60:02d}:{x % 60:02d}"
FormatHHMM(x) == Pad2(x \div 60) \o <<":">> \o Pad2(x % 60)

\* the difference without the clip at 0
DiffMinutesUnclipped(first, last) ==
  IF first.k = "na" \/ last.k = "na" THEN 0
  ELSE (last.v[1] - first.v[1]) * 1440 + (last.v[2] - first.v[2]) \div 60

\* lines 275-276: (last - first).dt.total_seconds() / 60, missing as 0,
\* clipped at 0, cut to an int
DiffMinutes(first, last) ==
  IF IsNA(first) \/ IsNA(last) THEN 0
  ELSE LET minutes == (last.v[1] - first.v[1]) * 1440 + (last.v[2] - first.v[2]) \div 60
       IN IF minutes < 0 THEN 0 ELSE minutes

\* lines 271-280
RetailTime(frame, genFirst, genLast) ==
  IF {FirstCall, LastCall} \subseteq frame.cols
  THEN LET first_parsed == parse_time_series(Column(frame, FirstCall), genFirst)
           last_parsed  == parse_time_series(Column(frame, LastCall), genLast)
       IN WithColumn(frame, TotalRetailTime, "object",
                     [i \in DOMAIN frame.rows |->
                        Str(FormatHHMM(DiffMinutes(first_parsed[i], last_parsed[i])))])
  ELSE IF TotalRetailTime \notin frame.cols
  THEN WithColumn(frame, TotalRetailTime, "object",
                  [i \in DOMAIN frame.rows |-> Str(<<"0","0",":","0","0">>)])
  ELSE frame

(***************************************************************************)
(* Specification SpecNames: normalize_columns applied repeatedly to the    *)
(* header of a one-column frame                                            *)
(***************************************************************************)
NameAlphabet == {"a", "B", "1", "_", " "}

\* every sequence over S of length at most n
RECURSIVE ColumnsUpTo(_, _)
ColumnsUpTo(S, n) ==
  IF n = 0 THEN {<<>>}
  ELSE LET shorter == ColumnsUpTo(S, n - 1)
       IN shorter \cup {Append(s, c) : s \in shorter, c \in S}

RawNames == ColumnsUpTo(NameAlphabet, MaxNameLen)

IdleNames == columns = <<>> /\ normalized = <<>>

IdleDates == series = <<>> /\ generic = <<>> /\ dates = <<>>

NoError == [at |-> "none", key |-> <<>>]

IdleFrames ==
  /\ df_summary_raw = EmptyFrame
  /\ df_secondary_raw = EmptyFrame
  /\ df_summary = EmptyFrame
  /\ df_secondary = EmptyFrame
  /\ join_keys = <<>>
  /\ df_secondary_agg = EmptyFrame
  /\ merge_keys_debug = <<>>
  /\ tmp = EmptyFrame
  /\ df_merged = EmptyFrame
  /\ df = EmptyFrame
  /\ error = NoError

InitNames ==
  /\ pc = "names"
  /\ columns \in {<<n>> : n \in RawNames}
  /\ normalized = <<>>
  /\ IdleDates
  /\ IdleFrames

NormalizeColumns ==
  /\ pc = "names"
  /\ Len(normalized) < 2
  /\ columns' = normalize_columns(columns)
  /\ normalized' = Append(normalized, columns')
  /\ UNCHANGED <<pc, dateVars, rawVars, frameVars, diagVars, resultVars, error>>

NextNames == NormalizeColumns

SpecNames == InitNames /\ [][NextNames]_vars

(***************************************************************************)
(* Specification SpecDates: robust_parse_date_col applied to a column      *)
(***************************************************************************)
DateCells ==
  { Str(<<"2","0","2","5","-","0","9","-","0","1">>),          \* "2025-09-01"
    Str(<<"0","1","-","0","2","-","2","0","2","0">>),          \* "01-02-2020"
    Str(<<"1","3","/","0","1","/","2","0","2","0">>),          \* "13/01/2020"
    Str(<<"0","1","/","0","2","/","2","0","2","0">>),          \* "01/02/2020"
    Str(<<"0","1","/","1","3","/","2","0","2","0">>),          \* "01/13/2020"
    Str(<<"2","0","2","0","/","0","1","/","0","2">>),          \* "2020/01/02"
    Str(<<"0","1","-","S","e","p","-","2","0","2","5">>),      \* "01-Sep-2025"
    Str(<<"0","1"," ","S","e","p"," ","2","0","2","5">>),      \* "01 Sep 2025"
    Str(<<"0","1",".","0","9",".","2","0","2","5">>),          \* "01.09.2025"
    Str(<<" ","0","1","-","0","9","-","2","0","2","5"," ">>),  \* " 01-09-2025 "
    Str(<<"4","5","0","0","0">>),                              \* "45000"
    Num(45000),
    Str(<<"0","1","-","1","3","-","2","0","2","0">>),          \* "01-13-2020"
    Str(<<"2","0","2","5","-","0","9","-","0","1"," ","1","0",":","3","0">>),
                                                               \* "2025-09-01 10:30"
    Str(<<"a","b","c">>),                                      \* "abc"
    NA }

InitDates ==
  /\ pc = "dates"
  /\ series \in ColumnsUpTo(DateCells, MaxSeriesLen)
  /\ generic = <<>>
  /\ dates = <<>>
  /\ IdleNames
  /\ IdleFrames

ParseDates ==
  /\ pc = "dates"
  /\ \E g \in to_datetime_generic([i \in DOMAIN series |-> Strip(AsStr(series[i]))]) :
       /\ generic' = g
       /\ dates' = robust_parse_date_col(series, g)
  /\ pc' = "dates_done"
  /\ UNCHANGED <<series, nameVars, rawVars, frameVars, diagVars, resultVars, error>>

NextDates == ParseDates

SpecDates == InitDates /\ [][NextDates]_vars

(***************************************************************************)
(* Specification Spec: the script from load_data to the end of its         *)
(* diagnostics block                                                       *)
(***************************************************************************)
\* a frame from a header (field -> raw column name, <<>> for a field the
\* sheet does not have), the dtype read_excel gives each field and rows
MakeFrame(header, dtypes, rows) ==
  LET fields == {f \in DOMAIN header : header[f] # <<>>}
      cs     == {header[f] : f \in fields}
      field(c) == CHOOSE f \in fields : header[f] = c
  IN [cols  |-> cs,
      dtype |-> [c \in cs |-> dtypes[field(c)]],
      rows  |-> IF cs = {} THEN <<>>
                ELSE [i \in DOMAIN rows |-> [c \in cs |-> rows[i][field(c)]]]]

\* the selections of rows of a sheet, in the order of the sheet
RECURSIVE Selections(_)
Selections(rows) ==
  IF rows = <<>> THEN {<<>>}
  ELSE LET rest == Selections(Tail(rows))
       IN rest \cup {<<Head(rows)>> \o r : r \in rest}

\* the first n rows of a sheet
FirstRows(rows, n) == SubSeq(rows, 1, IF n < Len(rows) THEN n ELSE Len(rows))

\* rows of Summary.xlsx
SummaryRowPool ==
  << [user |-> Str(<<"a"," ">>), date |-> Str(<<"0","1","-","0","2","-","2","0","2","0">>), region |-> Str(<<"N","o","r","t","h">>)],
     [user |-> Str(<<"b">>), date |-> NA, region |-> NA],
     [user |-> Str(<<"A">>), date |-> Num(45000), region |-> Str(<<"E","a","s","t">>)] >>

\* rows of Secondary.xlsx; the first two are one (User, Order Date) group
SecondaryRowPool ==
  << [user |-> Str(<<"A">>), date |-> Str(<<"2","0","2","0","-","0","2","-","0","1">>), qty |-> Num(3),
      region |-> NA, delivered |-> Ts(DaysFromCivil(2020, 2, 3), 0)],
     [user |-> Str(<<"a">>), date |-> Str(<<"0","1","-","0","2","-","2","0","2","0">>), qty |-> Num(5),
      region |-> Str(<<"N","o","r","t","h">>), delivered |-> NA],
     [user |-> Str(<<"b">>), date |-> NA, qty |-> NA,
      region |-> Str(<<"S","o","u","t","h">>), delivered |-> NA],
     [user |-> Str(<<"b"," ">>), date |-> Str(<<"a","b","c">>), qty |-> Num(2),
      region |-> NA, delivered |-> NA] >>

SummaryHeaders ==
  {[user |-> u, date |-> d, region |-> r] :
     u \in {<<>>, <<" ","u","s","e","r"," ">>},
     d \in {<<>>, <<"o","r","d","e","r","_","d","a","t","e">>},
     r \in {<<"r","e","g","i","o","n">>}}
  \cup {[user |-> <<>>, date |-> <<>>, region |-> <<>>]}

SecondaryHeaders ==
  {[user |-> u, date |-> d, qty |-> <<"q","t","y">>, region |-> <<"R","E","G","I","O","N">>,
    delivered |-> <<"d","e","l","i","v","e","r","e","d">>] :
     u \in {<<>>, <<"U","S","E","R">>},
     d \in {<<>>, <<"O","r","d","e","r"," ","D","a","t","e">>, <<"d","a","t","e">>}}
  \cup {[user |-> <<>>, date |-> <<>>, qty |-> <<>>, region |-> <<>>,
         delivered |-> <<>>]}

SummaryDtypes == [user |-> "object", date |-> "object", region |-> "object"]

SecondaryDtypes ==
  [user |-> "object", date |-> "object", qty |-> "number", region |-> "object",
   delivered |-> "datetime"]

RawSummaries ==
  {MakeFrame(h, SummaryDtypes, rows) :
     h \in SummaryHeaders, rows \in Selections(FirstRows(SummaryRowPool, MaxSummaryRows))}

RawSecondaries ==
  {MakeFrame(h, SecondaryDtypes, rows) :
     h \in SecondaryHeaders, rows \in Selections(FirstRows(SecondaryRowPool, MaxSecondaryRows))}

\* the results the generic parser can give for the Order Date column
GenericFor(frame) ==
  IF OrderDate \in frame.cols
  THEN to_datetime_generic([i \in DOMAIN frame.rows |->
                              Strip(AsStr(frame.rows[i][OrderDate]))])
  ELSE {<<>>}

\* the keys without the look at Secondary's columns
JoinKeysAlways(secondary) == <<User, OrderDate>>

\* lines 164-165 and 168-169
JoinKeysFor(secondary) ==
  IF OrderDate \in secondary.cols THEN <<User, OrderDate>> ELSE <<User>>

Init ==
  /\ pc = "loaded"
  /\ df_summary_raw \in RawSummaries
  /\ df_secondary_raw \in RawSecondaries
  /\ df_summary = EmptyFrame
  /\ df_secondary = EmptyFrame
  /\ join_keys = <<>>
  /\ df_secondary_agg = EmptyFrame
  /\ merge_keys_debug = <<>>
  /\ tmp = EmptyFrame
  /\ df_merged = EmptyFrame
  /\ df = EmptyFrame
  /\ error = NoError
  /\ IdleNames
  /\ IdleDates

\* lines 100-102
NormalizeHeaders ==
  /\ pc = "loaded"
  /\ df_summary' = NormalizeFrame(df_summary_raw)
  /\ df_secondary' = NormalizeFrame(df_secondary_raw)
  /\ pc' = "normalized"
  /\ UNCHANGED <<nameVars, dateVars, rawVars, join_keys, df_secondary_agg,
                 diagVars, resultVars, error>>

\* lines 104-108
RenameDate ==
  /\ pc = "normalized"
  /\ df_summary' = RenameDateColumn(df_summary)
  /\ df_secondary' = RenameDateColumn(df_secondary)
  /\ pc' = "renamed"
  /\ UNCHANGED <<nameVars, dateVars, rawVars, join_keys, df_secondary_agg,
                 diagVars, resultVars, error>>

\* lines 123-132
ParseOrderDates ==
  /\ pc = "renamed"
  /\ \E g1 \in GenericFor(df_summary), g2 \in GenericFor(df_secondary) :
       /\ df_summary' = ParseOrderDate(df_summary, g1)
       /\ df_secondary' = ParseOrderDate(df_secondary, g2)
  /\ pc' = "parsed"
  /\ UNCHANGED <<nameVars, dateVars, rawVars, join_keys, df_secondary_agg,
                 diagVars, resultVars, error>>

\* lines 134-138
NormalizeUsers ==
  /\ pc = "parsed"
  /\ df_summary' = NormalizeUser(df_summary)
  /\ df_secondary' = NormalizeUser(df_secondary)
  /\ pc' = "users"
  /\ UNCHANGED <<nameVars, dateVars, rawVars, join_keys, df_secondary_agg,
                 diagVars, resultVars, error>>

\* lines 164-171: the keys are chosen and Secondary is aggregated by them;
\* groupby raises KeyError for a key Secondary has no column for
Aggregate ==
  /\ pc = "users"
  /\ join_keys' = JoinKeysFor(df_secondary)
  /\ IF MissingKey(df_secondary, join_keys') # <<>>
     THEN /\ error' = [at |-> "aggregate", key |-> MissingKey(df_secondary, join_keys')]
          /\ pc' = "error"
          /\ UNCHANGED df_secondary_agg
     ELSE /\ df_secondary_agg' = aggregate_secondary(df_secondary, join_keys')
          /\ pc' = "aggregated"
          /\ UNCHANGED error
  /\ UNCHANGED <<nameVars, dateVars, rawVars, df_summary, df_secondary,
                 diagVars, resultVars>>

\* lines 186-194: the copies s and t with their diagnostic columns
DiagFrame(frame) ==
  LET withUser ==
        WithColumn(frame, DiagUser, "object",
                   [i \in DOMAIN frame.rows |->
                      IF User \in frame.cols
                      THEN Str(Upper(Strip(AsStr(frame.rows[i][User]))))
                      ELSE NA])
  IN WithColumn(withUser, DiagDate, "object",
                [i \in DOMAIN frame.rows |->
                   IF OrderDate \in frame.cols THEN frame.rows[i][OrderDate] ELSE NA])

\* lines 186-229.  The debug merge raises KeyError for a key Summary has no
\* column for (line 203).  Line 206 selects ["User", "Order Date"] from tmp
\* and line 208 selects "__user__" from it, each a KeyError when tmp has no
\* such column; s and t both carry __user__, which is no merge key, so tmp
\* holds it as __user___x and __user___y.
Diagnostics ==
  /\ pc = "aggregated"
  /\ merge_keys_debug' = join_keys
  /\ LET s == DiagFrame(df_summary)
         t == DiagFrame(df_secondary_agg)
         missing == (IF MissingKey(t, merge_keys_debug') # <<>>
                     THEN MissingKey(t, merge_keys_debug')
                     ELSE MissingKey(s, merge_keys_debug'))
     IN IF missing # <<>>
        THEN /\ error' = [at |-> "debug merge", key |-> missing]
             /\ pc' = "error"
             /\ UNCHANGED tmp
        ELSE /\ tmp' = Merge(s, t, merge_keys_debug', XSuffix, YSuffix, TRUE)
             /\ IF OrderDate \notin tmp'.cols
                THEN error' = [at |-> "line 206", key |-> OrderDate] /\ pc' = "error"
                ELSE IF DiagUser \notin tmp'.cols
                THEN error' = [at |-> "line 208", key |-> DiagUser] /\ pc' = "error"
                ELSE pc' = "diagnosed" /\ UNCHANGED error
  /\ UNCHANGED <<nameVars, dateVars, rawVars, frameVars, resultVars>>

Next ==
  \/ NormalizeHeaders
  \/ RenameDate
  \/ ParseOrderDates
  \/ NormalizeUsers
  \/ Aggregate
  \/ Diagnostics

Spec == Init /\ [][Next]_vars

(***************************************************************************)
(* Specification SpecRecon: the script from its final merge (line 233) to  *)
(* the retail time (line 280), started from the frames lines 100-171 make  *)
(* of the two sheets.  Diagnostics never hands over to line 233 (see       *)
(* there), so Spec does not include these steps.                           *)
(***************************************************************************)
ReconSummaryRowPool ==
  << [user |-> Str(<<"a">>), date |-> Str(<<"2","0","2","0","-","0","2","-","0","1">>), region |-> NA,
      first |-> Str(<<"0","9",":","0","0">>), last |-> Str(<<"1","7",":","4","5">>)],
     [user |-> Str(<<"b">>), date |-> Str(<<"2","0","2","0","-","0","2","-","0","1">>), region |-> Str(<<"S","o","u","t","h">>),
      first |-> Str(<<"0","9",":","0","0">>), last |-> Str(<<"0","8",":","3","0">>)],
     [user |-> Str(<<"A">>), date |-> NA, region |-> NA,
      first |-> Str(<<"a","b","c">>), last |-> NA],
     [user |-> Str(<<"c">>), date |-> Str(<<"2","0","2","0","-","0","2","-","0","2">>), region |-> Str(<<"W","e","s","t">>),
      first |-> Str(<<"2","0","2","5","-","0","9","-","0","1"," ","1","0",":","3","0">>), last |-> Str(<<"2","0","2","5","-","0","9","-","0","2"," ","1","3",":","4","5">>)],
     [user |-> Str(<<"b">>), date |-> Str(<<"2","0","2","0","-","0","2","-","0","2">>), region |-> NA,
      first |-> Str(<<"2","3",":","3","0">>), last |-> Str(<<"2","3",":","5","9">>)] >>

ReconSecondaryRowPool ==
  << [user |-> Str(<<"a">>), date |-> Str(<<"2","0","2","0","-","0","2","-","0","1">>), qty |-> Num(3),
      region |-> Str(<<"N","o","r","t","h">>)],
     [user |-> Str(<<"A">>), date |-> Str(<<"2","0","2","0","-","0","2","-","0","1">>), qty |-> Num(5),
      region |-> Str(<<"E","a","s","t">>)],
     [user |-> Str(<<"a">>), date |-> NA, qty |-> Num(1), region |-> Str(<<"N","o","r","t","h">>)],
     [user |-> Str(<<"B">>), date |-> Str(<<"2","0","2","0","-","0","2","-","0","1">>), qty |-> Num(7),
      region |-> Str(<<"N","o","r","t","h">>)],
     [user |-> Str(<<"c">>), date |-> Str(<<"2","0","2","0","-","0","2","-","0","2">>), qty |-> NA, region |-> NA] >>

ReconSummaryHeaders ==
  {[user |-> <<"U","s","e","r">>, date |-> <<"O","r","d","e","r"," ","D","a","t","e">>, region |-> h[1], first |-> h[2], last |-> h[3]] :
     h \in { << <<"R","e","g","i","o","n">>, <<"F","i","r","s","t"," ","C","a","l","l">>, <<"L","a","s","t"," ","C","a","l","l">> >>,
             << <<"R","e","g","i","o","n">>, <<>>, <<>> >>,
             << <<>>, <<"F","i","r","s","t"," ","C","a","l","l">>, <<"L","a","s","t"," ","C","a","l","l">> >> }}

ReconSecondaryHeaders ==
  {[user |-> <<"U","s","e","r">>, date |-> h[1], qty |-> <<"Q","t","y">>, region |-> h[2]] :
     h \in { << <<"D","a","t","e">>, <<"R","e","g","i","o","n">> >>, << <<>>, <<"R","e","g","i","o","n">> >>, << <<"D","a","t","e">>, <<>> >> }}

ReconSummaryDtypes ==
  [user |-> "object", date |-> "object", region |-> "object",
   first |-> "object", last |-> "object"]

ReconSecondaryDtypes ==
  [user |-> "object", date |-> "object", qty |-> "number", region |-> "object"]

ReconSummaries ==
  {MakeFrame(h, ReconSummaryDtypes, rows) :
     h \in ReconSummaryHeaders,
     rows \in Selections(FirstRows(ReconSummaryRowPool, MaxPrimaryRows))}

ReconSecondaries ==
  {MakeFrame(h, ReconSecondaryDtypes, rows) :
     h \in ReconSecondaryHeaders,
     rows \in Selections(FirstRows(ReconSecondaryRowPool, MaxDetailRows))}

\* lines 100-108
Renamed(raw) == RenameDateColumn(NormalizeFrame(raw))

\* lines 123-138
Prepared(renamed, gen) == NormalizeUser(ParseOrderDate(renamed, gen))

\* Summary.xlsx as lines 100-138 leave it, with the sheet it came from
PreparedSummaries ==
  UNION {{[raw |-> r, frame |-> Prepared(Renamed(r), g)] : g \in GenericFor(Renamed(r))} :
           r \in ReconSummaries}

\* Secondary.xlsx as lines 100-171 leave it: the frame, the join keys chosen
\* for it and its aggregate
PreparedSecondaries ==
  UNION {{LET t == Prepared(Renamed(r), g)
          IN [raw |-> r, frame |-> t, keys |-> JoinKeysFor(t),
              agg |-> aggregate_secondary(t, JoinKeysFor(t))] :
            g \in GenericFor(Renamed(r))} :
           r \in ReconSecondaries}

InitRecon ==
  /\ pc = "diagnosed"
  /\ \E s \in PreparedSummaries, t \in PreparedSecondaries :
       /\ df_summary_raw = s.raw
       /\ df_summary = s.frame
       /\ df_secondary_raw = t.raw
       /\ df_secondary = t.frame
       /\ join_keys = t.keys
       /\ df_secondary_agg = t.agg
  /\ merge_keys_debug = join_keys
  /\ tmp = EmptyFrame
  /\ df_merged = EmptyFrame
  /\ df = EmptyFrame
  /\ error = NoError
  /\ IdleNames
  /\ IdleDates

\* lines 233-238: the merge, st.error and st.stop() when it raises
FinalMerge ==
  /\ pc = "diagnosed"
  /\ LET missing == (IF MissingKey(df_secondary_agg, join_keys) # <<>>
                     THEN MissingKey(df_secondary_agg, join_keys)
                     ELSE MissingKey(df_summary, join_keys))
     IN IF missing # <<>>
        THEN /\ error' = [at |-> "merge", key |-> missing]
             /\ pc' = "error"
             /\ UNCHANGED resultVars
        ELSE /\ df' = Merge(df_summary, df_secondary_agg, join_keys,
                            SumSuffix, SecSuffix, FALSE)
             /\ df_merged' = df'
             /\ pc' = "merged"
             /\ UNCHANGED error
  /\ UNCHANGED <<nameVars, dateVars, rawVars, frameVars, diagVars>>

\* lines 253-257
UnifyColumns ==
  /\ pc = "merged"
  /\ df' = UnifyAll(df, UnifyBases)
  /\ pc' = "unified"
  /\ UNCHANGED <<nameVars, dateVars, rawVars, frameVars, diagVars, df_merged, error>>

\* lines 259-266
ExtraColumns ==
  /\ pc = "unified"
  /\ df' = EnsureExtraColumns(df, extra_cols)
  /\ pc' = "extras"
  /\ UNCHANGED <<nameVars, dateVars, rawVars, frameVars, diagVars, df_merged, error>>

\* the results the generic parser can give for a column of times
GenericTimes(frame, c) ==
  IF c \in frame.cols
  THEN to_datetime_generic([i \in DOMAIN frame.rows |-> TimeText(frame.rows[i][c])])
  ELSE {<<>>}

\* lines 271-280
ComputeRetailTime ==
  /\ pc = "extras"
  /\ \E g1 \in GenericTimes(df, FirstCall), g2 \in GenericTimes(df, LastCall) :
       df' = RetailTime(df, g1, g2)
  /\ pc' = "done"
  /\ UNCHANGED <<nameVars, dateVars, rawVars, frameVars, diagVars, df_merged, error>>

NextRecon ==
  \/ FinalMerge
  \/ UnifyColumns
  \/ ExtraColumns
  \/ ComputeRetailTime

SpecRecon == InitRecon /\ [][NextRecon]_vars

\* C5: applying normalize_columns twice yields the same column names as
\* applying it once, for every raw header of letters, digits, spaces and
\* underscores (leading and trailing underscores included).
C5_NormalizeIdempotent ==
  (pc = "names" /\ Len(normalized) = 2) => normalized[1] = normalized[2]

\* the first candidate that is not missing, NA when all are
FirstSuccess(cands) ==
  LET ok == {j \in DOMAIN cands : ~IsNA(cands[j])}
  IN IF ok = {} THEN NA ELSE cands[CHOOSE j \in ok : \A h \in ok : j <= h]

\* the strategies of the claim for one cell, in the claimed order
C7_Strategies(cell, gen) ==
  LET text     == Strip(AsStr(cell))
      explicit == << Strptime(text, Fmt("-", "Y", "m", "d")),
                     Strptime(text, Fmt("-", "d", "m", "Y")),
                     Strptime(text, Fmt("/", "d", "m", "Y")),
                     Strptime(text, Fmt("/", "Y", "m", "d")),
                     Strptime(text, Fmt("-", "d", "b", "Y")),
                     Strptime(text, Fmt(" ", "d", "b", "Y")),
                     Strptime(text, Fmt("/", "m", "d", "Y")),
                     Strptime(text, Fmt(".", "d", "m", "Y")) >>
      num      == ToNumeric(cell)
      serial   == IF IsNA(FirstSuccess(explicit)) /\ ~IsNA(num)
                  THEN Ts(DaysFromCivil(1899, 12, 30) + num.v, 0)
                  ELSE NA
  IN explicit \o <<serial, gen>>

\* C7: every cell gets the date of the first strategy that succeeds on it,
\* in the order explicit formats (as listed, day before month), serial
\* number of days since 1899-12-30 for numeric cells no format matched,
\* generic parse; a cell no strategy parses is missing; the result is as
\* long as the input.  01-02-2020 and 01/02/2020 are 1 February 2020, 45000
\* is 2023-03-15.
C7_StrategyOrder ==
  pc = "dates_done" =>
    /\ Len(dates) = Len(series)
    /\ \A i \in DOMAIN series :
         LET first == FirstSuccess(C7_Strategies(series[i], generic[i]))
         IN /\ dates[i] = (IF IsNA(first) THEN NA ELSE Date(first.v[1]))
            /\ series[i] = Str(<<"0","1","-","0","2","-","2","0","2","0">>)
                 => dates[i] = Date(DaysFromCivil(2020, 2, 1))
            /\ series[i] = Str(<<"0","1","/","0","2","/","2","0","2","0">>)
                 => dates[i] = Date(DaysFromCivil(2020, 2, 1))
            /\ series[i] \in {Num(45000), Str(<<"4","5","0","0","0">>)}
                 => dates[i] = Date(DaysFromCivil(2023, 3, 15))
            /\ series[i] \in {NA, Str(<<"a","b","c">>)} => dates[i] = NA

\* a two-cell column was parsed: an ambiguous text, and a number that only
\* the serial strategy reads
C7_Witness ==
  /\ pc = "dates_done"
  /\ Len(series) = 2
  /\ series[1] = Str(<<"0","1","/","0","2","/","2","0","2","0">>)
  /\ series[2] = Num(45000)
  /\ dates[2] = Date(DaysFromCivil(2023, 3, 15))

(***************************************************************************)
(* Claims                                                                  *)
(***************************************************************************)
\* the rows of a frame whose key columns equal those of row r
SameKeyRows(frame, keys, r) ==
  {j \in DOMAIN frame.rows : \A h \in DOMAIN keys : frame.rows[j][keys[h]] = r[keys[h]]}

\* the name a Summary column has in the merged frame
AsPrimary(c) == IF c \in df_merged.cols THEN c ELSE c \o SumSuffix

\* the name a column of the aggregated Secondary has in the merged frame
AsSecondary(c) == IF c \in df_merged.cols THEN c ELSE c \o SecSuffix

\* C1: the left merge of Summary with the aggregated Secondary has exactly
\* the rows of Summary, each once and in place, each matched to at most one
\* aggregated row (rows whose keys are missing included) and carrying that
\* row's values, or missing values when there is none.
C1_JoinComplete ==
  pc \in {"merged", "unified", "extras", "done"} =>
    /\ Len(df_merged.rows) = Len(df_summary.rows)
    /\ \A i \in DOMAIN df_summary.rows :
         LET matches == SameKeyRows(df_secondary_agg, join_keys, df_summary.rows[i])
         IN /\ \A c \in df_summary.cols :
                 df_merged.rows[i][AsPrimary(c)] = df_summary.rows[i][c]
            /\ Cardinality(matches) <= 1
            /\ \A c \in df_secondary_agg.cols \ Range(join_keys) :
                 /\ \A j \in matches :
                      df_merged.rows[i][AsSecondary(c)] = df_secondary_agg.rows[j][c]
                 /\ matches = {} => IsNA(df_merged.rows[i][AsSecondary(c)])

\* two Secondary rows of one key were merged into a two-row Summary that has
\* a row with a missing Order Date
C1_Witness ==
  /\ pc = "merged"
  /\ Len(df_summary.rows) = 2
  /\ Len(df_secondary.rows) = 2
  /\ Len(df_secondary_agg.rows) = 1
  /\ Len(df_merged.rows) = 2
  /\ \E i \in DOMAIN df_summary.rows : IsNA(df_summary.rows[i][OrderDate])

\* the key tuples of the rows of a frame
KeyTuples(frame, keys) == {KeyTuple(frame.rows[i], keys) : i \in DOMAIN frame.rows}

\* C2: the aggregated Secondary has no two rows with the same join key
\* tuple and exactly one row for each key tuple of Secondary, a tuple with
\* a missing value being a group of its own.
C2_AggregationUnique ==
  pc = "aggregated" =>
    /\ \A i, j \in DOMAIN df_secondary_agg.rows :
         i # j => KeyTuple(df_secondary_agg.rows[i], join_keys)
                    # KeyTuple(df_secondary_agg.rows[j], join_keys)
    /\ KeyTuples(df_secondary_agg, join_keys) = KeyTuples(df_secondary, join_keys)

\* three Secondary rows became two groups: two rows of one user and day, and
\* a row with no Order Date
C2_Witness ==
  /\ pc = "aggregated"
  /\ join_keys = <<User, OrderDate>>
  /\ Len(df_secondary.rows) = 3
  /\ Len(df_secondary_agg.rows) = 2
  /\ \E g \in DOMAIN df_secondary_agg.rows : IsNA(df_secondary_agg.rows[g][OrderDate])

\* C3: in the aggregated Secondary every numeric column holds the sum over
\* the rows of the group and every other column of Secondary that is not a
\* key is present and holds the first value of the group that is not
\* missing.
C3_AggregationCorrect ==
  pc = "aggregated" =>
    \A g \in DOMAIN df_secondary_agg.rows :
      LET members == SelectSeq(df_secondary.rows,
                       LAMBDA r : KeyTuple(r, join_keys)
                                    = KeyTuple(df_secondary_agg.rows[g], join_keys))
          cells(c) == [i \in DOMAIN members |-> members[i][c]]
      IN \A c \in df_secondary.cols \ Range(join_keys) :
           /\ c \in df_secondary_agg.cols
           /\ df_secondary_agg.rows[g][c] =
                (IF df_secondary.dtype[c] = "number"
                 THEN Num(SumCells(cells(c)))
                 ELSE FirstCell(cells(c)))

\* the column names that went into the merge on both sides and are no key
SharedColumns == (df_summary.cols \cap df_secondary_agg.cols) \ Range(join_keys)

\* column base is unified in df: one column, the Summary value where there
\* is one and the Secondary value elsewhere, no suffixed column left
Unified(base) ==
  /\ base \in df.cols
  /\ base \o SumSuffix \notin df.cols
  /\ base \o SecSuffix \notin df.cols
  /\ \A i \in DOMAIN df.rows :
       df.rows[i][base] =
         (IF ~IsNA(df_merged.rows[i][base \o SumSuffix])
          THEN df_merged.rows[i][base \o SumSuffix]
          ELSE df_merged.rows[i][base \o SecSuffix])

C4_UnifyListed ==
  pc \in {"unified", "extras", "done"} =>
    \A base \in SharedColumns \cap
                  {Region, Territory, ReportingManager, Distributor,
                   L4PositionUser, L3PositionUser, L2PositionUser, PrimaryCategory} :
      Unified(base)

\* Region came from both sheets; one row took the Summary value although
\* Secondary had another, one row fell back to the Secondary value
C4_Witness ==
  /\ pc = "unified"
  /\ Region \in SharedColumns
  /\ \E i \in DOMAIN df.rows :
       /\ IsNA(df_merged.rows[i][Region \o SumSuffix])
       /\ ~IsNA(df_merged.rows[i][Region \o SecSuffix])
       /\ df.rows[i][Region] = df_merged.rows[i][Region \o SecSuffix]
  /\ \E i \in DOMAIN df.rows :
       /\ ~IsNA(df_merged.rows[i][Region \o SumSuffix])
       /\ ~IsNA(df_merged.rows[i][Region \o SecSuffix])
       /\ df_merged.rows[i][Region \o SumSuffix] # df_merged.rows[i][Region \o SecSuffix]
       /\ df.rows[i][Region] = df_merged.rows[i][Region \o SumSuffix]

\* the join keys a frame of the run lacks
AbsentKeys ==
  {k \in Range(join_keys) : k \notin df_summary.cols \/ k \notin df_secondary.cols}

\* C6: when Summary or Secondary lacks a join key, the run stops with an
\* error that names a missing key, at the aggregation when Secondary lacks
\* it and at the first merge otherwise; it never gets past the merge and
\* no merged table exists.
C6_MissingKeyFails ==
  AbsentKeys # {} =>
    /\ pc \in {"aggregated", "error"}
    /\ pc = "aggregated" => Range(join_keys) \subseteq df_secondary.cols
    /\ pc = "error" =>
         /\ error.key \in AbsentKeys
         /\ error.at = (IF Range(join_keys) \subseteq df_secondary.cols
                        THEN "debug merge" ELSE "aggregate")
    /\ tmp = EmptyFrame
    /\ df_merged = EmptyFrame
    /\ df = EmptyFrame

\* Secondary has User and Order Date, Summary has User only: the debug
\* merge raised, naming Order Date
C6_Witness ==
  /\ pc = "error"
  /\ error = [at |-> "debug merge", key |-> OrderDate]
  /\ User \in df_summary.cols
  /\ OrderDate \notin df_summary.cols

\* a cell holds hours:minutes: at least two digits, a colon, two digits
\* below 60
IsHHMM(c) ==
  /\ c.k = "str"
  /\ Len(c.v) >= 5
  /\ c.v[Len(c.v) - 2] = ":"
  /\ AllDigits(SubSeq(c.v, 1, Len(c.v) - 3))
  /\ AllDigits(SubSeq(c.v, Len(c.v) - 1, Len(c.v)))
  /\ DigitsValue(SubSeq(c.v, Len(c.v) - 1, Len(c.v))) < 60

\* the minutes a cell that holds hours:minutes stands for
MinutesOf(c) ==
  DigitsValue(SubSeq(c.v, 1, Len(c.v) - 3)) * 60
    + DigitsValue(SubSeq(c.v, Len(c.v) - 1, Len(c.v)))

\* a cell with a clock time written HH:MM
IsClock(c) == IsHHMM(c) /\ Len(c.v) = 5 /\ MinutesOf(c) < 1440

ZeroSpan == Str(<<"0","0",":","0","0">>)

\* C8: at the end every row has a Total Retail Time(Hh:Mm) of zero-padded
\* hours:minutes; for two clock times it is last - first in minutes, 0 when
\* last is before first; it is 00:00 when a time is missing or no time at
\* all, and for every row when neither sheet has First Call and Last Call;
\* 09:00 to 17:45 is 08:45 and 09:00 to 08:30 is 00:00.
C8_RetailTime ==
  pc = "done" =>
    /\ TotalRetailTime \in df.cols
    /\ \A i \in DOMAIN df.rows :
         LET first == df.rows[i][FirstCall]
             last  == df.rows[i][LastCall]
             span  == df.rows[i][TotalRetailTime]
         IN /\ IsHHMM(span)
            /\ (IsClock(first) /\ IsClock(last)) =>
                 MinutesOf(span) = (IF MinutesOf(last) < MinutesOf(first) THEN 0
                                    ELSE MinutesOf(last) - MinutesOf(first))
            /\ (first = Str(<<"0","9",":","0","0">>) /\ last = Str(<<"1","7",":","4","5">>))
                 => span = Str(<<"0","8",":","4","5">>)
            /\ (first = Str(<<"0","9",":","0","0">>) /\ last = Str(<<"0","8",":","3","0">>))
                 => span = ZeroSpan
            /\ (IsNA(first) \/ IsNA(last) \/ first = Str(<<"a","b","c">>))
                 => span = ZeroSpan
            /\ FirstCall \notin df_summary.cols \cup df_secondary.cols => span = ZeroSpan

\* a row from 09:00 to 17:45 and a row from 09:00 to 08:30 got 08:45 and 00:00
C8_Witness ==
  /\ pc = "done"
  /\ Len(df.rows) = 2
  /\ df.rows[1][FirstCall] = Str(<<"0","9",":","0","0">>)
  /\ df.rows[1][LastCall] = Str(<<"1","7",":","4","5">>)
  /\ df.rows[1][TotalRetailTime] = Str(<<"0","8",":","4","5">>)
  /\ df.rows[2][LastCall] = Str(<<"0","8",":","3","0">>)
  /\ df.rows[2][TotalRetailTime] = ZeroSpan

\* C9: when both sheets are empty the run stops with an error before any
\* transform (header normalisation, date parsing, aggregation, merge) has
\* run.
C9_EmptyInputFirst ==
  (df_summary_raw.rows = <<>> /\ df_secondary_raw.rows = <<>>) =>
    \/ pc = "loaded"
    \/ pc = "error" /\ error.at = "load"

\* C10: the join keys are [User, Order Date] when both sheets have User and
\* Order Date, and [User] when Secondary has no Order Date; the aggregated
\* Secondary is keyed by them and the merge is made on them.
C10_JoinKeySelection ==
  pc \in {"aggregated", "error"} =>
    /\ {User, OrderDate} \subseteq df_summary.cols \cap df_secondary.cols
         => join_keys = <<User, OrderDate>>
    /\ OrderDate \notin df_secondary.cols => join_keys = <<User>>
    /\ pc = "aggregated" =>
         df_secondary_agg.cols \cap {User, OrderDate} = Range(join_keys)
    /\ error.at \notin {"none", "aggregate"} => merge_keys_debug = join_keys
    /\ tmp # EmptyFrame => Range(join_keys) \subseteq tmp.cols

\* Secondary had a "date" header and Summary an "order_date" header: both
\* became Order Date and the debug merge was made on [User, Order Date]
C10_Witness ==
  /\ pc = "error"
  /\ error.at = "line 208"
  /\ join_keys = <<User, OrderDate>>
  /\ merge_keys_debug = <<User, OrderDate>>
  /\ <<"d","a","t","e">> \in df_secondary_raw.cols
  /\ <<"o","r","d","e","r","_","d","a","t","e">> \in df_summary_raw.cols

====
